---------------------------- MODULE Spec2Model ----------------------------
(***************************************************************************)
(* A model of elastic-store (src/src/index.js): genStateTree and the      *)
(* Store closure (state, actions, middlewares) with dispatch, attach and  *)
(* detach.                                                                 *)
(*                                                                         *)
(* JavaScript strings are sequences of one-character strings, so that     *)
(* split(".") and indexOf work on characters.  JavaScript values are      *)
(* records [t, v]; objects live in a heap and are named by their address, *)
(* so that object identity is address equality.                            *)
(***************************************************************************)
EXTENDS Integers, Sequences, FiniteSets, TLC

\* ------------------------------------------------------------------ bounds

\* modulus of the caller's add transition, (prev = 0, x) => (prev + x) % ValCap
ValCap == 2
\* payloads dispatched are 1..MaxPayload
MaxPayload == 1
\* attach is called at most MaxAttach times
MaxAttach == 2
\* the action trees given to genStateTree alone have at most MaxRootKeys keys
MaxRootKeys == 2
\* overlays and merges are made while the heap holds fewer than MaxHeap objects
MaxHeap == 6
\* a store whose state is overlaid and whose actions are merged has at most
\* MaxStoreAttach wrappers attached
MaxStoreAttach == 1

\* ----------------------------------------------------------------- strings

\* "todo", "todos", "other" and the action names, shortened
K_t == <<"t">>
K_ts == <<"t", "s">>
K_k == <<"k">>
K_l == <<"l">>
K_c == <<"c">>
K_a == <<"a">>
K_g == <<"g">>
K_init == <<"i", "n", "i", "t">>
\* the name of the member every object inherits from Object.prototype
K_toString == <<"t", "o", "S", "t", "r", "i", "n", "g">>
\* String(undefined), the key frags.shift() of an empty array yields
K_undefined == <<"u", "n", "d", "e", "f", "i", "n", "e", "d">>

Dot == <<".">>

RECURSIVE SplitAcc(_, _, _)
SplitAcc(s, cur, out) ==
    IF s = <<>> THEN Append(out, cur)
    ELSE IF Head(s) = "." THEN SplitAcc(Tail(s), <<>>, Append(out, cur))
    ELSE SplitAcc(Tail(s), Append(cur, Head(s)), out)

\* path.split(".")
Split(path) == SplitAcc(path, <<>>, <<>>)

\* s.indexOf(sub): the first position (from 0) where sub occurs in s, else -1
IndexOf(s, sub) ==
    LET hits == {i \in 0..(Len(s) - Len(sub)) : SubSeq(s, i + 1, i + Len(sub)) = sub}
    IN IF hits = {} THEN -1 ELSE CHOOSE i \in hits : \A j \in hits : i <= j

\* ------------------------------------------------------------------ values

Undef == [t |-> "undef", v |-> 0]
Nan == [t |-> "nan", v |-> 0]
Num(n) == [t |-> "num", v |-> n]
Bool(b) == [t |-> "bool", v |-> IF b THEN 1 ELSE 0]
\* a non-empty string whose characters do not matter ("[object Undefined]")
StrVal == [t |-> "str", v |-> 0]
\* a reference to the heap object at address a
Obj(a) == [t |-> "obj", v |-> a]

\* ToBoolean
Truthy(x) ==
    CASE x.t = "undef" -> FALSE
      [] x.t = "nan" -> FALSE
      [] x.t = "num" -> x.v # 0
      [] x.t = "bool" -> x.v = 1
      [] OTHER -> TRUE

EmptyObj == [k \in {} |-> Undef]

\* a built-in function found as a value (an inherited method read as a property)
FuncVal == [t |-> "func", v |-> 0]

\* heap[a][key]: the own property, else the member inherited from
\* Object.prototype, else undefined
Get(h, a, key) ==
    IF key \in DOMAIN h[a] THEN h[a][key]
    ELSE IF key = K_toString THEN FuncVal
    ELSE Undef

\* heap[a][key] = x
Put(h, a, key, x) ==
    [h EXCEPT ![a] = [k \in (DOMAIN h[a]) \cup {key} |-> IF k = key THEN x ELSE h[a][k]]]

\* ------------------------------------------------------------ action trees

\* what an action tree holds at a key: a transition function or a nested node
Fn(name) == [t |-> "fn", f |-> name]
Node(id) == [t |-> "node", n |-> id]

Entry(key, child) == [k |-> key, c |-> child]

\* The nested nodes of the action trees the stores are built from, by name;
\* each is the list of its own enumerable keys in insertion order.
NodeTable ==
    [n \in {"todos", "list", "checkAll", "all", "empty", "fnFirst", "branchFirst", "initFirst"} |->
        CASE n = "todos" -> <<Entry(K_l, Node("list")), Entry(K_c, Node("checkAll"))>>
          [] n = "list" -> <<Entry(K_init, Fn("init")), Entry(K_a, Fn("add"))>>
          [] n = "checkAll" -> <<Entry(K_k, Node("all"))>>
          [] n = "all" -> <<Entry(K_g, Fn("toggle"))>>
          [] n = "empty" -> <<>>
          \* nodes that mix transition functions with nested nodes
          [] n = "fnFirst" -> <<Entry(K_a, Fn("add")), Entry(K_k, Node("all"))>>
          [] n = "branchFirst" -> <<Entry(K_k, Node("all")), Entry(K_a, Fn("add"))>>
          [] n = "initFirst" -> <<Entry(K_init, Fn("init")), Entry(K_k, Node("all"))>>]

\* {todos: {list: {init, add}, checkAll: {all: {toggle}}}}
NestedTree == <<Entry(K_ts, Node("todos"))>>

\* the transition functions, applied as action(prev, payload) with no this
Apply(f, prev, payload) ==
    CASE f = "add" ->
            [val |-> IF prev.t = "undef" THEN Num(payload.v % ValCap)
                     ELSE IF prev.t = "num" THEN Num((prev.v + payload.v) % ValCap)
                     ELSE Nan,
             err |-> "none"]
      [] f = "toggle" -> [val |-> Bool(~Truthy(prev)), err |-> "none"]
      [] f = "init" -> [val |-> Num(1), err |-> "none"]
      [] f = "Object.prototype.toString" -> [val |-> StrVal, err |-> "none"]
      [] OTHER -> [val |-> Undef, err |-> "type"]

\* the own entry of a tree at key, undefined when there is none
OwnEntry(tree, key) ==
    IF \E i \in 1..Len(tree) : tree[i].k = key
    THEN tree[CHOOSE i \in 1..Len(tree) : tree[i].k = key].c
    ELSE Undef

\* ------------------------------------------------------------ genStateTree

RECURSIVE GenKeys(_, _, _, _)
RECURSIVE genStateTree(_, _, _)

\* Mutant of InitOf: the leaf is left undefined whether or not the node has
\* an init.
InitOf_skip(tree) == [val |-> Undef, err |-> "none"]

\* tree.init ? tree.init() : undefined
InitOf(tree) ==
    LET init == OwnEntry(tree, K_init)
    IN IF init.t = "undef" THEN [val |-> Undef, err |-> "none"]
       ELSE IF init.t = "fn" THEN Apply(init.f, Undef, Undef)
       ELSE [val |-> Undef, err |-> "type"]

\* the for-in loop from the i-th key on; st is the local variable state
GenKeys(tree, i, st, h) ==
    IF i > Len(tree) THEN [val |-> st, heap |-> h, err |-> "none"]
    ELSE LET key == tree[i].k
             sub == tree[i].c
         IN IF sub.t = "fn"
            THEN LET r == InitOf(tree)
                 IN IF r.err # "none" THEN [val |-> st, heap |-> h, err |-> r.err]
                    ELSE GenKeys(tree, i + 1, r.val, h)
            ELSE IF st.t # "obj"
            \* state[key] of undefined, or an assignment to a primitive's property
            THEN [val |-> st, heap |-> h, err |-> "type"]
            ELSE LET a == st.v
                     old == Get(h, a, key)
                     cur == IF Truthy(old) THEN old ELSE Obj(Len(h) + 1)
                     h1 == IF Truthy(old) THEN h ELSE Append(h, EmptyObj)
                     r == genStateTree(NodeTable[sub.n], cur, Put(h1, a, key, cur))
                 IN IF r.err # "none" THEN [val |-> st, heap |-> r.heap, err |-> r.err]
                    ELSE GenKeys(tree, i + 1, st, Put(r.heap, a, key, r.val))

\* genStateTree(tree, state = {}) on heap h: the value returned and the heap left
genStateTree(tree, st, h) ==
    IF st.t = "undef"
    THEN GenKeys(tree, 1, Obj(Len(h) + 1), Append(h, EmptyObj))
    ELSE GenKeys(tree, 1, st, h)


\* ------------------------------------------------------------------- store

VARIABLES
    actions,      \* the action tree: the root's own entries
    heap,         \* the objects reachable from the state, by address
    state,        \* the closure variable state (what store() returns)
    middlewares,  \* the middleware array
    nextId,       \* the identity the next function object created gets
    detached,     \* the wrappers attach returned whose detach was called
    initial,      \* the middleware entries supplied to the constructor
    call,         \* the last call made on the store
    ret,          \* what it returned
    err,          \* what it threw
    log,          \* what the middleware functions and the base transition
                  \* observed during the last call, in order
    pre           \* history: the store as it was before the last call

vars == <<actions, heap, state, middlewares, nextId, detached, initial, call, ret, err, log, pre>>

\* desiredPath as the array every wrapper holds after its first call
Normalised(mws) ==
    [i \in 1..Len(mws) |->
        [mws[i] EXCEPT !.dp = IF @.t = "str" THEN [t |-> "arr", v |-> @.v] ELSE @]]

\* the store as it is: heap and state, the action tree, the middleware array
Snapshot ==
    [heap |-> heap, state |-> state, actions |-> actions,
     middlewares |-> Normalised(middlewares), nextId |-> nextId]

\* the store function object, as passed to middleware
NewStore == "newStore"

NoErr == [kind |-> "none", path |-> <<>>]
\* Error(`Could not find action associated with path '${path}'.`)
PathErr(path) == [kind |-> "path", path |-> path]
\* a TypeError thrown by the engine
TypeErr == [kind |-> "type", path |-> <<>>]

Event(e, id, path, next, store) ==
    [e |-> e, id |-> id, path |-> path, next |-> next, store |-> store]

\* ---------------------------------------------------------------- dispatch

\* path[frag] in the reduce over the action tree: pos is the tree reached
\* so far.  An own key gives its entry; toString is inherited by every
\* object (Object.prototype) and every function (Function.prototype).
Lookup(tree, pos, frag) ==
    CASE pos.t = "root" ->
            IF OwnEntry(tree, frag).t # "undef" THEN OwnEntry(tree, frag)
            ELSE IF frag = K_toString THEN Fn("Object.prototype.toString")
            ELSE Undef
      [] pos.t = "node" ->
            IF OwnEntry(NodeTable[pos.n], frag).t # "undef" THEN OwnEntry(NodeTable[pos.n], frag)
            ELSE IF frag = K_toString THEN Fn("Object.prototype.toString")
            ELSE Undef
      [] OTHER ->
            IF frag = K_toString THEN Fn("Function.prototype.toString") ELSE Undef

RECURSIVE Reduce(_, _, _)
\* frags.reduce(..., actions): [ok, pos]; not ok when a lookup is falsy
Reduce(tree, pos, frs) ==
    IF frs = <<>> THEN [ok |-> TRUE, pos |-> pos]
    ELSE LET subPath == Lookup(tree, pos, Head(frs))
         IN IF subPath.t = "undef" THEN [ok |-> FALSE, pos |-> Undef]
            ELSE Reduce(tree, subPath, Tail(frs))

\* the try block: the function the path names, or the error thrown
ResolveAction(tree, path) ==
    LET r == Reduce(tree, [t |-> "root"], Split(path))
    IN IF r.ok /\ r.pos.t = "fn" THEN [ok |-> TRUE, f |-> r.pos.f]
       ELSE [ok |-> FALSE, f |-> ""]

RECURSIVE setValueAtPath(_, _, _, _, _)

\* Mutant of setValueAtPath: writes into a copy of subTree and returns the copy
\* (an immutable update) instead of writing into subTree itself.
setValueAtPath_copy(subTree, frs, action, payload, h) ==
    LET frag == IF frs = <<>> THEN K_undefined ELSE Head(frs)
        rest == IF frs = <<>> THEN <<>> ELSE Tail(frs)
    IN IF subTree.t # "obj"
       THEN [val |-> Undef, heap |-> h, err |-> TypeErr]
       ELSE IF Len(rest) > 0
       THEN LET r == setValueAtPath(Get(h, subTree.v, frag), rest, action, payload, h)
            IN IF r.err.kind # "none" THEN r
               ELSE [val |-> Obj(Len(r.heap) + 1),
                     heap |-> Put(Append(r.heap, r.heap[subTree.v]), Len(r.heap) + 1, frag, r.val),
                     err |-> NoErr]
       ELSE LET r == Apply(action, Get(h, subTree.v, frag), payload)
            IN IF r.err # "none" THEN [val |-> Undef, heap |-> h, err |-> TypeErr]
               ELSE [val |-> Obj(Len(h) + 1),
                     heap |-> Put(Append(h, h[subTree.v]), Len(h) + 1, frag, r.val),
                     err |-> NoErr]

\* setValueAtPath(subTree, frags) with action and payload of the closure
setValueAtPath(subTree, frs, action, payload, h) ==
    LET frag == IF frs = <<>> THEN K_undefined ELSE Head(frs)
        rest == IF frs = <<>> THEN <<>> ELSE Tail(frs)
    IN IF subTree.t # "obj"
       \* a property of undefined, or an assignment to a primitive's property
       THEN [val |-> Undef, heap |-> h, err |-> TypeErr]
       ELSE IF Len(rest) > 0
       THEN LET r == setValueAtPath(Get(h, subTree.v, frag), rest, action, payload, h)
            IN IF r.err.kind # "none" THEN r
               ELSE [val |-> subTree, heap |-> Put(r.heap, subTree.v, frag, r.val), err |-> NoErr]
       ELSE LET r == Apply(action, Get(h, subTree.v, frag), payload)
            IN IF r.err # "none" THEN [val |-> Undef, heap |-> h, err |-> TypeErr]
               ELSE [val |-> subTree, heap |-> Put(h, subTree.v, frag, r.val), err |-> NoErr]

\* frags.pop()
Pop(frs) == IF frs = <<>> THEN <<>> ELSE SubSeq(frs, 1, Len(frs) - 1)

\* Mutant of wrappedAction: walks into the state before it resolves the path,
\* so that a path that names no action has its first key set in the state
\* when the error is thrown.
wrappedAction_writeFirst(tree, path, entireState, payload, h) ==
    LET a == ResolveAction(tree, path)
    IN IF ~a.ok
       THEN [val |-> Undef,
             heap |-> Put(h, entireState.v, Head(Split(path)), Get(h, entireState.v, Head(Split(path)))),
             err |-> PathErr(path)]
       ELSE setValueAtPath(entireState, Pop(Split(path)), a.f, payload, h)

\* wrappedAction(entireState, payload) of a dispatch of path
wrappedAction(tree, path, entireState, payload, h) ==
    LET a == ResolveAction(tree, path)
    IN IF ~a.ok THEN [val |-> Undef, heap |-> h, err |-> PathErr(path)]
       ELSE setValueAtPath(entireState, Pop(Split(path)), a.f, payload, h)

\* -------------------------------------------------------------- middleware

\* The caller's middleware functions (path, next, store) => (state, payload) => ...
\*   through: returns next(state, payload)
\*   short:   returns state without calling next
\*   replace: returns payload without calling next
\*   twice:      calls next(state, payload), then returns next(state, payload)
\*   detachLast: calls detach() of the last wrapper of store.middlewares(),
\*               then returns next(...)
\*   attachMore: calls store.attach of a through middleware, while attach has
\*               been called fewer than MaxAttach times, then returns next(...)
\*   redispatch: calls store.dispatch("todos.checkAll.all.toggle", payload),
\*               then returns next(...)
Behaviours == {"through", "short", "replace", "twice", "detachLast", "attachMore", "redispatch"}

\* an entry of the middleware array: a function object with its closure
\*   kind "raw":       a caller's middleware function put in the initial array
\*   kind "pathAware": pathAwareMiddleware, closing over desiredPath (dp) and
\*                     the caller's middleware function (fn)
Wrapper(id, kind, dp, fn) == [id |-> id, kind |-> kind, dp |-> dp, fn |-> fn]

\* desiredPath as attach received it
DpFn == [t |-> "fn", v |-> <<>>]
DpStr(f) == [t |-> "str", v |-> <<f>>]
DpArr(fs) == [t |-> "arr", v |-> fs]

\* A function (state, payload) => ... is the list of the caller's middleware
\* frames it runs, outermost first, around wrappedAction; <<>> is wrappedAction.
Frame(m) == [id |-> m.id, fn |-> m.fn]

\* the caller's middleware called as middleware(appliedPath, next, store)
UserCall(m, appliedPath, next, store) ==
    [fnv |-> <<Frame(m)>> \o next,
     log |-> <<Event("compose", m.id, appliedPath, next, store)>>]

\* Mutant of Matches: a filter applies only to the path equal to it.
Matches_exact(filters, appliedPath) ==
    \E i \in 1..Len(filters) : appliedPath = filters[i]

\* Mutant of Matches: a filter applies when it is whole leading segments of
\* the path.
Matches_segment(filters, appliedPath) ==
    \E i \in 1..Len(filters) :
        \/ appliedPath = filters[i]
        \/ IndexOf(appliedPath, filters[i] \o <<".">>) = 0

\* for (i ...) if (appliedPath.indexOf(desiredPath[i]) === 0)
Matches(filters, appliedPath) ==
    \E i \in 1..Len(filters) : IndexOf(appliedPath, filters[i]) = 0

\* pathAwareMiddleware(appliedPath, next, store): the function returned, what
\* the caller's middleware observed, and desiredPath afterwards
pathAwareMiddleware(m, appliedPath, next, store) ==
    IF m.dp.t = "fn"
    THEN UserCall(m, appliedPath, next, store) @@ [dp |-> m.dp]
    ELSE LET desiredPath == DpArr(m.dp.v)
         IN IF Matches(desiredPath.v, appliedPath)
            THEN UserCall(m, appliedPath, next, store) @@ [dp |-> desiredPath]
            ELSE [fnv |-> next, log |-> <<>>, dp |-> desiredPath]

\* middleware(path, next, newStore) for one entry of the array
CallEntry(m, path, next, store) ==
    IF m.kind = "raw"
    THEN UserCall(m, path, next, store) @@ [dp |-> m.dp]
    ELSE pathAwareMiddleware(m, path, next, store)

RECURSIVE ReduceRight(_, _, _, _, _)
\* middlewares.reduceRight(..., wrappedAction) from entry i down to the first
ReduceRight(mws, i, path, next, lg) ==
    IF i = 0 THEN [fnv |-> next, mws |-> mws, log |-> lg]
    ELSE LET r == CallEntry(mws[i], path, next, NewStore)
         IN ReduceRight([mws EXCEPT ![i].dp = r.dp], i - 1, path, r.fnv, lg \o r.log)

RECURSIVE ReduceLeft(_, _, _, _, _)
ReduceLeft(mws, i, path, next, lg) ==
    IF i > Len(mws) THEN [fnv |-> next, mws |-> mws, log |-> lg]
    ELSE LET r == CallEntry(mws[i], path, next, NewStore)
         IN ReduceLeft([mws EXCEPT ![i].dp = r.dp], i + 1, path, r.fnv, lg \o r.log)

\* Mutant of finalAction: folds the array with reduce, from the first entry up.
finalAction_reduce(mws, path) == ReduceLeft(mws, 1, path, <<>>, <<>>)

\* let finalAction = middlewares.reduceRight(...)
finalAction(mws, path) == ReduceRight(mws, Len(mws), path, <<>>, <<>>)

\* the paths of the transition functions of NestedTree
Join(a, b) == a \o Dot \o b
P_list_add == Join(Join(K_ts, K_l), K_a)
P_all_toggle == Join(Join(Join(K_ts, K_c), K_k), K_g)

\* Mutant of Push: puts the wrapper in front (unshift).
Push_unshift(mws, m) == <<m>> \o mws

\* middlewares.push(pathAwareMiddleware)
Push(mws, m) == Append(mws, m)

\* middlewares.indexOf(pathAwareMiddleware), from 0, -1 when absent
IndexOfWrapper(mws, id) ==
    LET hits == {i \in 1..Len(mws) : mws[i].id = id}
    IN IF hits = {} THEN -1 ELSE (CHOOSE i \in hits : \A j \in hits : i <= j) - 1

\* middlewares.splice(index, 1)
Splice(mws, index) == SubSeq(mws, 1, index) \o SubSeq(mws, index + 2, Len(mws))

\* Mutant of Removed: splices without the test for -1; splice(-1, 1) removes
\* the last entry.
Removed_unguarded(mws, index) ==
    IF index = -1 THEN SubSeq(mws, 1, Len(mws) - 1) ELSE Splice(mws, index)

\* if (index !== -1) middlewares.splice(index, 1): the array afterwards
Removed(mws, index) == IF index # -1 THEN Splice(mws, index) ELSE mws

\* What a running dispatch can change, w: the heap, the middleware array,
\* the identity of the next function object, the wrappers detached.  A
\* function's result is its value, what it threw, the log and w afterwards.
World(h, mws, nid, det) == [heap |-> h, mws |-> mws, nextId |-> nid, detached |-> det]

Return(x, w, lg) ==
    [val |-> x, err |-> NoErr, log |-> lg,
     heap |-> w.heap, mws |-> w.mws, nextId |-> w.nextId, detached |-> w.detached]

\* Mutant of Base: frags is split once for the dispatch and shared by the
\* calls of wrappedAction; the first call empties it, and a later call
\* resolves the empty list to the action tree itself, which is no function.
Base_sharedFrags(tree, path, st, payload, w, lg) ==
    IF \E i \in 1..Len(lg) : lg[i].e = "base" /\ lg[i].path = path
    THEN [Return(Undef, w, Append(lg, Event("base", 0, path, <<>>, ""))) EXCEPT !.err = PathErr(path)]
    ELSE LET r == wrappedAction(tree, path, st, payload, w.heap)
         IN [val |-> r.val, err |-> r.err, log |-> Append(lg, Event("base", 0, path, <<>>, "")),
             heap |-> r.heap, mws |-> w.mws, nextId |-> w.nextId, detached |-> w.detached]

\* wrappedAction(st, payload) called during a dispatch of path
Base(tree, path, st, payload, w, lg) ==
    LET r == wrappedAction(tree, path, st, payload, w.heap)
    IN [val |-> r.val, err |-> r.err, log |-> Append(lg, Event("base", 0, path, <<>>, "")),
        heap |-> r.heap, mws |-> w.mws, nextId |-> w.nextId, detached |-> w.detached]

\* store.middlewares()[length - 1].detach() called by a middleware
DetachIn(w) ==
    IF w.mws = <<>> THEN w
    ELSE LET id == w.mws[Len(w.mws)].id
         IN [w EXCEPT !.mws = Removed(@, IndexOfWrapper(@, id)), !.detached = @ \cup {id}]

\* store.attach(through) called by a middleware
AttachIn(w, limit) ==
    IF w.nextId > limit THEN w
    ELSE [w EXCEPT !.mws = Push(@, Wrapper(w.nextId, "pathAware", DpFn, "through")),
                   !.nextId = @ + 1]

\* store.middlewares() as the middleware id sees it during a dispatch of
\* path, before and after its call of detach or attach
Seen(e, id, path, w) == Event(e, id, path, [i \in 1..Len(w.mws) |-> w.mws[i].id], NewStore)

\* Mutant of NextFn: next looks the wrappers up in the middleware array when
\* it is called, and runs those that are still in it.
NextFn_live(fnv, w) ==
    SelectSeq(Tail(fnv), LAMBDA f : \E i \in 1..Len(w.mws) : w.mws[i].id = f.id)

\* next, as the function fnv holds it: the function composed before fnv was
NextFn(fnv, w) == Tail(fnv)

RECURSIVE Invoke(_, _, _, _, _, _, _)
\* fnv(st, payload) during a dispatch of path
Invoke(fnv, tree, path, st, payload, w, lg) ==
    IF fnv = <<>>
    THEN Base(tree, path, st, payload, w, lg)
    ELSE LET m == Head(fnv)
             entered == Append(lg, Event("enter", m.id, path, <<>>, ""))
             Exit(r) == IF r.err.kind # "none" THEN r
                        ELSE [r EXCEPT !.log = Append(@, Event("exit", m.id, path, <<>>, ""))]
             CallNext(w1, lg1) == Invoke(NextFn(fnv, w1), tree, path, st, payload, w1, lg1)
         IN CASE m.fn = "through" -> Exit(CallNext(w, entered))
              [] m.fn = "short" -> Exit(Return(st, w, entered))
              [] m.fn = "replace" -> Exit(Return(payload, w, entered))
              [] m.fn = "twice" ->
                    LET r1 == CallNext(w, entered)
                    IN IF r1.err.kind # "none" THEN r1 ELSE Exit(CallNext(r1, r1.log))
              [] m.fn = "detachLast" ->
                    LET w1 == DetachIn(w)
                    IN Exit(CallNext(w1, entered \o <<Seen("before", m.id, path, w),
                                                     Seen("after", m.id, path, w1)>>))
              [] m.fn = "attachMore" ->
                    LET w1 == AttachIn(w, Len(initial) + MaxAttach)
                    IN Exit(CallNext(w1, entered \o <<Seen("before", m.id, path, w),
                                                     Seen("after", m.id, path, w1)>>))
              [] m.fn = "redispatch" ->
                    LET c == finalAction(w.mws, P_all_toggle)
                        r1 == Invoke(c.fnv, tree, P_all_toggle, st, payload,
                                     [w EXCEPT !.mws = c.mws], entered \o c.log)
                    IN IF r1.err.kind # "none" THEN r1 ELSE Exit(CallNext(r1, r1.log))

\* ----------------------------------------------------------------- actions

\* the paths dispatched
Paths ==
    { P_list_add, P_all_toggle,
      \* a branch, a missing key, an inherited member
      K_ts, K_t, Join(K_ts, K_toString) }

\* the arguments of attach: (desiredPath, middleware); with a function as
\* desiredPath the second argument is not used
AttachArgs ==
    { <<DpFn, "through">>, <<DpFn, "short">>,
      <<DpStr(K_t), "through">>,
      <<DpArr(<<Join(K_ts, K_c), K_ts>>), "replace">> }

\* a call on the store: the operation, the path and payload dispatched, the
\* wrapper attached or detached, the index detach found, and the mapping
\* given as argument
Call(op, path, payload, id, index) ==
    [op |-> op, path |-> path, payload |-> payload, id |-> id, index |-> index, arg |-> <<>>]

\* a call whose argument is a mapping, given as its entries
CallWith(op, arg) == [Call(op, <<>>, 0, 0, 0) EXCEPT !.arg = arg]

\* Store(actions, middlewares, initialState = {})
Init ==
    \E tree \in {NestedTree}, mws \in {<<>>, <<Wrapper(1, "raw", DpFn, "through")>>} :
        LET g == genStateTree(tree, Undef, <<>>)
        IN /\ g.err = "none"
           /\ g.val.t = "obj"
           /\ actions = tree
           /\ heap = g.heap
           /\ state = g.val
           /\ middlewares = mws
           /\ initial = mws
           /\ nextId = Len(mws) + 1
           /\ detached = {}
           /\ call = Call("new", <<>>, 0, 0, 0)
           /\ ret = Undef
           /\ err = NoErr
           /\ log = <<>>
           /\ pre = Snapshot

\* Mutant of Dispatch: resolves the path before the chain is run, and throws
\* without running it when the path names no function.
Dispatch_eager(path, payload) ==
    \E c \in {finalAction(middlewares, path)} :
    \E r \in {IF ResolveAction(actions, path).ok
              THEN Invoke(c.fnv, actions, path, state, Num(payload),
                          World(heap, c.mws, nextId, detached), c.log)
              ELSE [Return(Undef, World(heap, c.mws, nextId, detached), c.log)
                        EXCEPT !.err = PathErr(path)]} :
       /\ middlewares' = r.mws
       /\ nextId' = r.nextId
       /\ detached' = r.detached
       /\ heap' = r.heap
       /\ log' = r.log
       /\ err' = r.err
       /\ ret' = IF r.err.kind = "none" THEN r.val ELSE Undef
       /\ call' = Call("dispatch", path, payload, 0, 0)
       /\ pre' = Snapshot
       /\ UNCHANGED <<actions, state, initial>>

\* Mutant of Dispatch: stores what the chain returned, state = finalAction(...).
Dispatch_assign(path, payload) ==
    \E c \in {finalAction(middlewares, path)} :
    \E r \in {Invoke(c.fnv, actions, path, state, Num(payload),
                     World(heap, c.mws, nextId, detached), c.log)} :
       /\ middlewares' = r.mws
       /\ nextId' = r.nextId
       /\ detached' = r.detached
       /\ heap' = r.heap
       /\ log' = r.log
       /\ err' = r.err
       /\ ret' = IF r.err.kind = "none" THEN r.val ELSE Undef
       /\ state' = IF r.err.kind = "none" THEN r.val ELSE state
       /\ call' = Call("dispatch", path, payload, 0, 0)
       /\ pre' = Snapshot
       /\ UNCHANGED <<actions, initial>>

\* newStore.dispatch(path, payload)
Dispatch(path, payload) ==
    \E c \in {finalAction(middlewares, path)} :
    \E r \in {Invoke(c.fnv, actions, path, state, Num(payload),
                     World(heap, c.mws, nextId, detached), c.log)} :
       /\ middlewares' = r.mws
       /\ nextId' = r.nextId
       /\ detached' = r.detached
       /\ heap' = r.heap
       /\ log' = r.log
       /\ err' = r.err
       /\ ret' = IF r.err.kind = "none" THEN r.val ELSE Undef
       /\ call' = Call("dispatch", path, payload, 0, 0)
       /\ pre' = Snapshot
       /\ UNCHANGED <<actions, state, initial>>

\* newStore.attach(desiredPath, middleware)
Attach(dp, fn) ==
    /\ nextId <= Len(initial) + MaxAttach
    /\ LET m == Wrapper(nextId, "pathAware", dp, fn)
       IN /\ middlewares' = Push(middlewares, m)
          /\ ret' = [t |-> "wrapper", v |-> m.id]
    /\ nextId' = nextId + 1
    /\ call' = Call("attach", <<>>, 0, nextId, 0)
    /\ pre' = Snapshot
    /\ err' = NoErr
    /\ log' = <<>>
    /\ UNCHANGED <<actions, heap, state, initial, detached>>

\* the wrappers attach has returned
Attached == (Len(initial) + 1)..(nextId - 1)

\* pathAwareMiddleware.detach() of the wrapper attach returned as id
Detach(id) ==
    /\ id \in Attached
    /\ LET index == IndexOfWrapper(middlewares, id)
       IN /\ middlewares' = Removed(middlewares, index)
          /\ call' = Call("detach", <<>>, 0, id, index)
    /\ detached' = detached \cup {id}
    /\ pre' = Snapshot
    /\ ret' = Undef
    /\ err' = NoErr
    /\ log' = <<>>
    /\ UNCHANGED <<actions, heap, state, nextId, initial>>

Next ==
    \/ \E path \in Paths, payload \in 1..MaxPayload : Dispatch(path, payload)
    \/ \E args \in AttachArgs : Attach(args[1], args[2])
    \/ \E id \in Attached : Detach(id)

Spec == Init /\ [][Next]_vars

\* ------------------------------------------------------ what the claims use

\* path starts with the characters of f
StartsWith(path, f) == Len(f) <= Len(path) /\ SubSeq(path, 1, Len(f)) = f

\* path is f, or f followed by a dot and more: f is whole leading segments
SegmentPrefix(path, f) == path = f \/ StartsWith(path, f \o Dot)

RECURSIVE OwnWalk(_, _)
\* the entry reached from a tree by own keys only, undefined when one is missing
OwnWalk(tree, frs) ==
    IF frs = <<>> THEN Undef
    ELSE LET e == OwnEntry(tree, Head(frs))
         IN IF Len(frs) = 1 THEN e
            ELSE IF e.t = "node" THEN OwnWalk(NodeTable[e.n], Tail(frs))
            ELSE Undef

\* the segments of path name, key by key in the action tree, a transition function
Resolvable(path) == OwnWalk(actions, Split(path)).t = "fn"

\* the location a path addresses: its segments without the last
Location(path) == Pop(Split(path))

RECURSIVE ValueAt(_, _, _)
\* the state value at a location, starting from value x in heap h
ValueAt(h, x, loc) ==
    IF loc = <<>> THEN x
    ELSE IF x.t = "obj" /\ Head(loc) \in DOMAIN h[x.v] THEN ValueAt(h, h[x.v][Head(loc)], Tail(loc))
    ELSE Undef

\* the entry of the middleware array applies to path
Applies(m, path) ==
    m.kind = "raw" \/ m.dp.t = "fn" \/ \E i \in 1..Len(m.dp.v) : StartsWith(path, m.dp.v[i])

\* the entries that apply to path, in array order
Chain(mws, path) == SelectSeq(mws, LAMBDA m : Applies(m, path))

\* no entry that applies to path returns without calling next
NoInterception(mws, path) == \A i \in 1..Len(mws) : Applies(mws[i], path) => mws[i].fn = "through"

\* the first entry, in array order, that applies and does not call next
Interceptor(mws, path) ==
    LET c == Chain(mws, path)
    IN c[CHOOSE i \in 1..Len(c) : c[i].fn # "through" /\ \A j \in 1..(i - 1) : c[j].fn = "through"]

\* positions in the log of the events e of function id
Positions(lg, e, id) == {i \in 1..Len(lg) : lg[i].e = e /\ lg[i].id = id}

\* ------------------------------------------------------------------ claims

\* C1: with no middleware attached, a dispatch of a path that resolves in the
\* action tree to a transition function replaces the value at the path's
\* location by action(previous value, payload) and returns the store's state,
\* in every state that dispatches lead to.
C1_DispatchAppliesAction ==
    (call.op = "dispatch" /\ middlewares = <<>> /\ Resolvable(call.path))
        => /\ err.kind = "none"
           /\ ret = state
           /\ ValueAt(heap, state, Location(call.path))
                = Apply(OwnWalk(actions, Split(call.path)).f,
                        ValueAt(pre.heap, pre.state, Location(call.path)),
                        Num(call.payload)).val

C1_Witness ==
    /\ call.op = "dispatch" /\ call.path = P_list_add /\ middlewares = <<>>
    /\ err.kind = "none"
    /\ ValueAt(heap, state, Location(P_list_add)) = Num(0)

\* C2: a dispatch of a path that resolves to a transition function changes at
\* most the slot the path addresses: every other slot of every state object
\* keeps its value, no object is added, the store keeps its state object, and
\* every mapping on the path is the object it was.
C2_DispatchFrame ==
    (call.op = "dispatch" /\ Resolvable(call.path))
        => LET loc == Location(call.path)
               parent == ValueAt(pre.heap, pre.state, Pop(loc))
               key == loc[Len(loc)]
           IN /\ state = pre.state
              /\ DOMAIN heap = DOMAIN pre.heap
              /\ \A a \in DOMAIN pre.heap :
                    /\ DOMAIN heap[a] \subseteq DOMAIN pre.heap[a] \cup {key}
                    /\ \A k \in DOMAIN pre.heap[a] :
                          ~(parent = Obj(a) /\ k = key)
                              => k \in DOMAIN heap[a] /\ heap[a][k] = pre.heap[a][k]
              /\ \A i \in 0..(Len(loc) - 1) :
                    ValueAt(heap, state, SubSeq(loc, 1, i)) = ValueAt(pre.heap, pre.state, SubSeq(loc, 1, i))

\* a dispatch of todos.checkAll.all.toggle has set the leaf, and the sibling
\* todos.list holds what an earlier dispatch of todos.list.add left
C2_Witness ==
    /\ call.op = "dispatch" /\ call.path = P_all_toggle /\ err.kind = "none"
    /\ ValueAt(heap, state, Location(P_all_toggle)) = Bool(TRUE)
    /\ ValueAt(heap, state, Location(P_list_add)) = Num(0)
    /\ ValueAt(heap, state, <<K_ts, K_c>>).t = "obj"

\* C3: a dispatch of a path that does not resolve, key by key in the action
\* tree, to a transition function throws the path error naming the path,
\* when no middleware that applies returns without calling next.
C3_UnresolvableThrows ==
    (call.op = "dispatch" /\ ~Resolvable(call.path) /\ NoInterception(middlewares, call.path))
        => err = PathErr(call.path)

\* C4: a dispatch of a path that does not resolve, with a middleware in the
\* chain that returns without calling next, throws nothing: the base
\* transition is not run, that middleware was composed with the dispatched
\* path, and dispatch returns what it returned.
C4_PseudoActionIntercepted ==
    (call.op = "dispatch" /\ ~Resolvable(call.path) /\ ~NoInterception(middlewares, call.path))
        => LET m == Interceptor(middlewares, call.path)
           IN /\ err = NoErr
              /\ \A i \in 1..Len(log) : log[i].e # "base"
              /\ \E i \in 1..Len(log) :
                    log[i].e = "compose" /\ log[i].id = m.id /\ log[i].path = call.path
              /\ Positions(log, "enter", m.id) # {}
              /\ ret = IF m.fn = "short" THEN state ELSE Num(call.payload)

\* the pseudo path "todo" was dispatched through a calling-through middleware
\* to one that returns its state argument
C4_Witness ==
    /\ call.op = "dispatch" /\ call.path = K_t /\ err = NoErr
    /\ Len(middlewares) = 2
    /\ middlewares[1].fn = "through" /\ middlewares[2].fn = "short"
    /\ ret = state
    /\ Positions(log, "enter", middlewares[2].id) # {}

\* C5 as stated: after a dispatch, store() returns the value dispatch returned.
C5_ReturnBecomesState ==
    (call.op = "dispatch" /\ err.kind = "none") => state = ret

\* C5 amended: dispatch returns what the composed chain returns but does not
\* store it: store() returns after the dispatch the object it returned before,
\* which is the value dispatch returned unless the middleware that ended the
\* chain returned another value than its state argument.
C5_StateIsKept ==
    call.op = "dispatch"
        => /\ state = pre.state
           /\ (err.kind = "none" /\ NoInterception(middlewares, call.path)) => ret = state
           /\ ~NoInterception(middlewares, call.path)
                => ret = IF Interceptor(middlewares, call.path).fn = "short"
                         THEN state ELSE Num(call.payload)

\* a dispatch returned the payload a middleware put in place of the state
C5_Witness ==
    /\ call.op = "dispatch" /\ err.kind = "none"
    /\ ret = Num(call.payload) /\ state # ret

\* the frames of the entries i..j of a middleware array
Frames(mws, i, j) == [k \in 1..(j - i + 1) |-> Frame(mws[i + k - 1])]

\* entry i of the array was composed with (path, the function of the entries
\* after it around the base transition, the store)
ComposedWith(mws, i, path) == Event("compose", mws[i].id, path, Frames(mws, i + 1, Len(mws)), NewStore)

\* C6: when every entry M[1..n] of the middleware array applies to the path
\* and calls through, a dispatch composes M[n], ..., M[1], each with (path,
\* the function composed so far, the store), then enters M[1], ..., M[n], runs
\* the base transition once and, when that does not throw, returns through
\* M[n], ..., M[1].
C6_ChainOrder ==
    (call.op = "dispatch" /\ NoInterception(middlewares, call.path)
        /\ \A i \in 1..Len(middlewares) : Applies(middlewares[i], call.path))
        => LET n == Len(middlewares)
               M == middlewares
               composes == [k \in 1..n |-> ComposedWith(M, n + 1 - k, call.path)]
               enters == [k \in 1..n |-> Event("enter", M[k].id, call.path, <<>>, "")]
               base == <<Event("base", 0, call.path, <<>>, "")>>
               exits == [k \in 1..n |-> Event("exit", M[n + 1 - k].id, call.path, <<>>, "")]
           IN log = composes \o enters \o base \o (IF err.kind = "none" THEN exits ELSE <<>>)

\* three entries, the one supplied at construction and two attached, wrapped a
\* dispatch that reached the base transition and returned
C6_Witness ==
    /\ call.op = "dispatch" /\ call.path = P_list_add /\ err.kind = "none"
    /\ Len(middlewares) = 3
    /\ \A i \in 1..3 : middlewares[i].fn = "through" /\ Applies(middlewares[i], call.path)
    /\ Len(log) = 10

\* two wrappers attach returned, the first before the second, both in the
\* array and both entered by the last dispatch
BothEntered(i, j) ==
    /\ call.op = "dispatch"
    /\ i < j
    /\ IndexOfWrapper(middlewares, i) # -1 /\ IndexOfWrapper(middlewares, j) # -1
    /\ Positions(log, "enter", i) # {} /\ Positions(log, "enter", j) # {}

\* C7 as stated: of two attached middlewares a dispatch enters, the one
\* attached earlier is the inner one, entered later.
C7_EarlierIsInner ==
    \A i, j \in (Len(initial) + 1)..(nextId - 1) :
        BothEntered(i, j)
            => \A p \in Positions(log, "enter", i), q \in Positions(log, "enter", j) : q < p

\* C7 amended: of two attached middlewares a dispatch enters, the one attached
\* earlier is the outer one: it is entered first, it is composed last, with a
\* next function that holds the later one, and it returns last.
C7_EarlierIsOuter ==
    \A i, j \in (Len(initial) + 1)..(nextId - 1) :
        BothEntered(i, j)
            => /\ \A p \in Positions(log, "enter", i), q \in Positions(log, "enter", j) : p < q
               /\ \A p \in Positions(log, "compose", i), q \in Positions(log, "compose", j) :
                     /\ q < p
                     /\ \E k \in 1..Len(log[p].next) : log[p].next[k].id = j
               /\ \A p \in Positions(log, "exit", i), q \in Positions(log, "exit", j) : q < p

C7_Witness ==
    /\ \E i, j \in (Len(initial) + 1)..(nextId - 1) :
          BothEntered(i, j) /\ Positions(log, "exit", i) # {} /\ Positions(log, "exit", j) # {}
    /\ err.kind = "none"

\* the caller's middleware of entry m was composed into the last dispatch
Wrapped(m) == Positions(log, "compose", m.id) # {}

\* what a dispatch of (path, payload) does with middleware array mws, from
\* the state before the last call
Outcome(mws, path, payload) ==
    LET c == finalAction(mws, path)
    IN Invoke(c.fnv, actions, path, pre.state, Num(payload),
              World(pre.heap, c.mws, nextId, detached), c.log)

\* C8: an attached middleware wraps a dispatch exactly when it was attached
\* without a filter or the path starts with one of its filter strings, and a
\* dispatch does what it would do with the entries that do not apply removed
\* from the array.
C8_FilterIsPrefix ==
    call.op = "dispatch"
        => /\ \A i \in 1..Len(middlewares) :
                 LET m == middlewares[i]
                 IN m.kind = "pathAware"
                      => (Wrapped(m) <=> (m.dp.t = "fn"
                                          \/ \E k \in 1..Len(m.dp.v) : StartsWith(call.path, m.dp.v[k])))
           /\ LET o == Outcome(Chain(middlewares, call.path), call.path, call.payload)
              IN /\ heap = o.heap
                 /\ log = o.log
                 /\ err = o.err
                 /\ ret = IF o.err.kind = "none" THEN o.val ELSE Undef

\* the filter "todos" did not apply to the dispatch of "todo", which threw the
\* path error as with no middleware, and a list filter applied to a path
\* that starts with its second string
C8_Witness ==
    /\ call.op = "dispatch" /\ call.path = K_t /\ err = PathErr(K_t)
    /\ \E i \in 1..Len(middlewares) :
          middlewares[i].dp.v = <<Join(K_ts, K_c), K_ts>> /\ ~Wrapped(middlewares[i])
    /\ \E i \in 1..Len(middlewares) :
          /\ middlewares[i].kind = "pathAware" /\ middlewares[i].dp.t = "fn"
          /\ Wrapped(middlewares[i])

\* the entries of the array attached with one filter string
OneFilter(mws) == {i \in 1..Len(mws) : mws[i].kind = "pathAware" /\ mws[i].dp.t # "fn" /\ Len(mws[i].dp.v) = 1}

\* C9 as stated: a middleware attached with the filter string f wraps a
\* dispatch of path p only when p is f or p starts with f and a dot.
C9_FilterIsSegmentPrefix ==
    call.op = "dispatch"
        => \A i \in OneFilter(middlewares) :
              Wrapped(middlewares[i]) => SegmentPrefix(call.path, middlewares[i].dp.v[1])

\* C9 amended: a string filter matches on characters, not on segments: a
\* middleware attached with the filter string f wraps a dispatch of path p when
\* p is f or starts with f and a dot, and also when f is only the beginning
\* of p's first differing segment ("todo" against "todos.list.add"); it does
\* not wrap it when the first Len(f) characters of p are not f.
C9_FilterIsCharacterPrefix ==
    call.op = "dispatch"
        => \A i \in OneFilter(middlewares) :
              LET f == middlewares[i].dp.v[1]
                  p == call.path
              IN /\ SegmentPrefix(p, f) => Wrapped(middlewares[i])
                 /\ (Len(f) < Len(p) /\ p[Len(f) + 1] # "." /\ \A k \in 1..Len(f) : p[k] = f[k])
                        => Wrapped(middlewares[i])
                 /\ (\E k \in 1..Len(f) : k > Len(p) \/ p[k] # f[k]) => ~Wrapped(middlewares[i])

\* the filter "todo" wrapped a dispatch of "todos.list.add"
C9_Witness ==
    /\ call.op = "dispatch" /\ call.path = P_list_add
    /\ \E i \in OneFilter(middlewares) :
          /\ middlewares[i].dp.v[1] = K_t
          /\ Wrapped(middlewares[i])
          /\ Positions(log, "enter", middlewares[i].id) # {}

RECURSIVE Ascending(_)
\* a finite set of numbers as the sequence of its elements in rising order
Ascending(S) ==
    IF S = {} THEN <<>>
    ELSE LET least == CHOOSE x \in S : \A y \in S : x <= y
         IN <<least>> \o Ascending(S \ {least})

Ids(mws) == [i \in 1..Len(mws) |-> mws[i].id]

\* C10: the middleware array holds the entries supplied at construction
\* followed by the wrappers attach returned whose detach was not called, in
\* the order they were attached; attach returns the wrapper it appended, and
\* a detach that does not find its wrapper leaves the array as it was.
C10_MiddlewareList ==
    /\ Ids(middlewares) = Ids(initial) \o Ascending(Attached \ detached)
    /\ \A i \in 1..Len(middlewares) :
          /\ i <= Len(initial) => middlewares[i] = initial[i]
          /\ i > Len(initial) => middlewares[i].kind = "pathAware"
    /\ call.op = "attach"
          => /\ ret = [t |-> "wrapper", v |-> call.id]
             /\ middlewares[Len(middlewares)].id = call.id
             /\ call.id \notin detached
    /\ call.op = "detach"
          => /\ call.id \in detached
             /\ call.index # -1 => call.index = Len(initial) + Cardinality({x \in Attached \ detached : x < call.id})

\* the first of two attached wrappers was detached a second time: the array
\* holds the constructor's entry and the second wrapper
C10_Witness ==
    /\ call.op = "detach" /\ call.index = -1
    /\ Len(initial) = 1
    /\ Ids(middlewares) = <<1, 3>>
    /\ detached = {2}

\* ------------------------------------------------- genStateTree on its own

\* what an action tree given to genStateTree can hold at a top-level key
RootEntries ==
    {Entry(k, Node(n)) : k \in {K_ts, K_c}, n \in DOMAIN NodeTable}
        \cup {Entry(K_a, Fn("add")), Entry(K_init, Fn("init"))}

\* the action trees: at most MaxRootKeys entries, no key twice
GenTrees ==
    UNION { {t \in [1..n -> RootEntries] : \A i, j \in 1..n : i # j => t[i].k # t[j].k}
            : n \in 0..MaxRootKeys }

\* before any call: an action tree, nothing generated yet
InitGen ==
    /\ actions \in GenTrees
    /\ heap = <<>>
    /\ state = Undef
    /\ middlewares = <<>>
    /\ initial = <<>>
    /\ nextId = 1
    /\ detached = {}
    /\ call = Call("new", <<>>, 0, 0, 0)
    /\ ret = Undef
    /\ err = NoErr
    /\ log = <<>>
    /\ pre = Snapshot

\* let s = genStateTree(actions)
Generate ==
    /\ call.op = "new"
    /\ \E g \in {genStateTree(actions, Undef, heap)} :
          /\ heap' = g.heap
          /\ state' = IF g.err = "none" THEN g.val ELSE Undef
          /\ err' = IF g.err = "none" THEN NoErr ELSE TypeErr
    /\ call' = Call("generate", <<>>, 0, 0, 0)
    /\ pre' = Snapshot
    /\ UNCHANGED <<actions, middlewares, initial, nextId, detached, ret, log>>

\* genStateTree(actions) once more, on the same tree
GenerateAgain ==
    /\ call.op = "generate"
    /\ err = NoErr
    /\ \E g \in {genStateTree(actions, Undef, heap)} :
          /\ heap' = g.heap
          /\ ret' = IF g.err = "none" THEN g.val ELSE Undef
          /\ err' = IF g.err = "none" THEN NoErr ELSE TypeErr
    /\ call' = Call("generateAgain", <<>>, 0, 0, 0)
    /\ pre' = Snapshot
    /\ UNCHANGED <<actions, state, middlewares, initial, nextId, detached, log>>

NextGen == Generate \/ GenerateAgain

SpecGen == InitGen /\ [][NextGen]_vars

\* the entries are transition functions, and there is one at least
LeafGroup(es) == es # <<>> /\ \A i \in 1..Len(es) : es[i].c.t = "fn"

RECURSIVE WellFormed(_)
\* every node of the tree is a leaf group or holds nested nodes only
WellFormed(es) ==
    \/ LeafGroup(es)
    \/ \A i \in 1..Len(es) : es[i].c.t = "node" /\ WellFormed(NodeTable[es[i].c.n])

\* a value as a structure: a mapping by its keys, anything else by itself
MapShape(m) == [t |-> "map", m |-> m, v |-> Undef]
LeafShape(x) == [t |-> "leaf", m |-> <<>>, v |-> x]

RECURSIVE Shape(_, _)
Shape(h, x) ==
    IF x.t = "obj" THEN MapShape([k \in DOMAIN h[x.v] |-> Shape(h, h[x.v][k])])
    ELSE LeafShape(x)

RECURSIVE ExpectedShape(_)
\* the state tree an action tree stands for: a node that holds a transition
\* function is a leaf, any other node a mapping of its keys
ExpectedShape(es) ==
    IF \E i \in 1..Len(es) : es[i].c.t = "fn"
    THEN LeafShape(IF OwnEntry(es, K_init).t = "fn" THEN Apply("init", Undef, Undef).val ELSE Undef)
    ELSE MapShape([k \in {es[i].k : i \in 1..Len(es)} |-> ExpectedShape(NodeTable[OwnEntry(es, k).n])])

\* C11: for an action tree whose nodes are each a leaf group or a pure branch,
\* genStateTree throws nothing and returns the tree's branch keys as nested
\* mappings with each leaf group replaced by its init result, or undefined
\* under its key when it has no init; a second call returns an equal
\* structure in another top-level object.
C11_GeneratedShape ==
    (call.op \in {"generate", "generateAgain"} /\ WellFormed(actions))
        => /\ err = NoErr
           /\ Shape(heap, state) = ExpectedShape(actions)
           /\ call.op = "generateAgain"
                => /\ Shape(heap, ret) = Shape(heap, state)
                   /\ state.t = "obj" => (ret.t = "obj" /\ ret # state)

C11_Witness ==
    /\ call.op = "generateAgain"
    /\ actions = <<Entry(K_ts, Node("todos")), Entry(K_c, Node("checkAll"))>>
    /\ ValueAt(heap, ret, <<K_ts, K_l>>) = Num(1)
    /\ K_k \in DOMAIN heap[ValueAt(heap, ret, <<K_c>>).v]
    /\ ValueAt(heap, ret, <<K_c, K_k>>) = Undef
    /\ ret # state

\* C12: genStateTree throws nothing, whatever the action tree and the order
\* of its keys.
C12_GeneratorNeverThrows ==
    call.op \in {"generate", "generateAgain"} => err = NoErr

\* ------------------------------------------- the accessor and actions()

\* an empty object the caller creates for the call, as a value of a mapping
NewObj == [t |-> "new", v |-> 0]

RECURSIVE AssignState(_, _, _, _)

\* Mutant of AssignState: a deep merge; a mapping given for a key that holds
\* a mapping already is merged into it, key by key, and the mapping stays.
AssignState_deep(h, st, source, i) ==
    IF i > Len(source) THEN h
    ELSE IF source[i].c = NewObj /\ Get(h, st.v, source[i].k).t = "obj"
    THEN AssignState(h, st, source, i + 1)
    ELSE IF source[i].c = NewObj
    THEN AssignState(Put(Append(h, EmptyObj), st.v, source[i].k, Obj(Len(h) + 1)), st, source, i + 1)
    ELSE AssignState(Put(h, st.v, source[i].k, source[i].c), st, source, i + 1)

\* Object.assign(state, source) from the i-th own key of source on: the heap left
AssignState(h, st, source, i) ==
    IF i > Len(source) THEN h
    ELSE IF source[i].c = NewObj
    THEN AssignState(Put(Append(h, EmptyObj), st.v, source[i].k, Obj(Len(h) + 1)), st, source, i + 1)
    ELSE AssignState(Put(h, st.v, source[i].k, source[i].c), st, source, i + 1)

\* target[key] = child on an action tree: an own key keeps its place
SetKey(tree, e) ==
    IF \E i \in 1..Len(tree) : tree[i].k = e.k
    THEN [i \in 1..Len(tree) |-> IF tree[i].k = e.k THEN e ELSE tree[i]]
    ELSE Append(tree, e)

RECURSIVE AssignTree(_, _, _)
\* Object.assign(actions, newActions) from the i-th own key of newActions on
AssignTree(tree, source, i) ==
    IF i > Len(source) THEN tree
    ELSE AssignTree(SetKey(tree, source[i]), source, i + 1)

\* the mappings given as stateOverrides and as initialState
O_branchUndefined == <<Entry(K_ts, Undef)>>
O_branchEmpty == <<Entry(K_ts, NewObj)>>
Overrides == {O_branchUndefined, O_branchEmpty}
InitialStates == {<<>>, O_branchEmpty}

\* the mappings given as newActions
A_newKeys == <<Entry(K_c, Node("list")), Entry(K_k, Node("checkAll"))>>
A_reshape == <<Entry(K_ts, Node("list"))>>
A_mixed == <<Entry(K_l, Node("fnFirst"))>>
NewActions == {A_newKeys, A_reshape, A_mixed}

\* the paths dispatched: into the constructor's tree, into the merged trees,
\* and one that names no action
P_k_toggle == Join(Join(K_k, K_k), K_g)
StorePaths == {P_list_add, P_all_toggle, P_k_toggle, K_t}

StoreArgs == { <<DpFn, "through">>, <<DpFn, "replace">> }

\* what actions() returns: the action tree
TreeRef == [t |-> "actions", v |-> 0]

\* Store(actions, [], initialState)
InitStore ==
    \E tree \in {NestedTree}, initialState \in InitialStates :
        LET g == genStateTree(tree, Undef, <<>>)
        IN /\ g.err = "none"
           /\ g.val.t = "obj"
           /\ actions = tree
           /\ state = g.val
           /\ heap = AssignState(g.heap, g.val, initialState, 1)
           /\ middlewares = <<>>
           /\ initial = <<>>
           /\ nextId = 1
           /\ detached = {}
           /\ call = CallWith("new", initialState)
           /\ ret = Undef
           /\ err = NoErr
           /\ log = <<>>
           /\ pre = [heap |-> g.heap, state |-> g.val, actions |-> tree,
                   middlewares |-> <<>>, nextId |-> 1]

\* newStore()
Read ==
    /\ ret' = state
    /\ call' = Call("read", <<>>, 0, 0, 0)
    /\ err' = NoErr
    /\ log' = <<>>
    /\ pre' = Snapshot
    /\ UNCHANGED <<actions, heap, state, middlewares, nextId, detached, initial>>

\* Mutant of Overlay: an immutable update, state = Object.assign({}, state,
\* stateOverrides).
Overlay_copy(stateOverrides) ==
    /\ Len(heap) < MaxHeap
    /\ heap' = AssignState(Append(heap, heap[state.v]), Obj(Len(heap) + 1), stateOverrides, 1)
    /\ state' = Obj(Len(heap) + 1)
    /\ ret' = Obj(Len(heap) + 1)
    /\ call' = CallWith("overlay", stateOverrides)
    /\ err' = NoErr
    /\ log' = <<>>
    /\ pre' = Snapshot
    /\ UNCHANGED <<actions, middlewares, nextId, detached, initial>>

\* newStore(stateOverrides)
Overlay(stateOverrides) ==
    /\ Len(heap) < MaxHeap
    /\ heap' = AssignState(heap, state, stateOverrides, 1)
    /\ ret' = state
    /\ call' = CallWith("overlay", stateOverrides)
    /\ err' = NoErr
    /\ log' = <<>>
    /\ pre' = Snapshot
    /\ UNCHANGED <<actions, state, middlewares, nextId, detached, initial>>

\* newStore.actions(newActions)
Merge(newActions) ==
    /\ Len(heap) < MaxHeap
    /\ actions' = AssignTree(actions, newActions, 1)
    /\ \E g \in {genStateTree(newActions, state, heap)} :
          /\ heap' = g.heap
          /\ err' = IF g.err = "none" THEN NoErr ELSE TypeErr
          /\ ret' = IF g.err = "none" THEN TreeRef ELSE Undef
    /\ call' = CallWith("actions", newActions)
    /\ log' = <<>>
    /\ pre' = Snapshot
    /\ UNCHANGED <<state, middlewares, nextId, detached, initial>>

NextStore ==
    \/ Read
    \/ \E o \in Overrides : Overlay(o)
    \/ \E t \in NewActions : Merge(t)
    \/ \E path \in StorePaths, payload \in 1..MaxPayload : Dispatch(path, payload)
    \/ \E args \in StoreArgs : nextId <= MaxStoreAttach /\ Attach(args[1], args[2])
    \/ \E id \in Attached : Detach(id)

SpecStore == InitStore /\ [][NextStore]_vars

\* the keys of a mapping given as its entries
Keys(es) == {es[i].k : i \in 1..Len(es)}

\* the objects of the heap before the last call, but the state object itself,
\* are as they were
OtherObjectsKept == \A a \in DOMAIN pre.heap : a # pre.state.v => heap[a] = pre.heap[a]

\* the top-level state keys outside ks keep their values, by identity
OtherKeysKept(ks) ==
    \A k \in DOMAIN pre.heap[pre.state.v] \ ks :
        k \in DOMAIN heap[state.v] /\ heap[state.v][k] = pre.heap[pre.state.v][k]

\* C13: actions(newActions) with top-level keys the action tree does not
\* have yet throws nothing; afterwards the action tree is the old entries
\* followed by the new ones, the state has under each new key what the
\* generator makes of that key's tree, every other top-level state key has
\* the value it had, and the middleware array is as it was.
C13_MergeAddsKeys ==
    (call.op = "actions" /\ Keys(call.arg) \cap Keys(pre.actions) = {})
        => /\ err = NoErr
           /\ actions = pre.actions \o call.arg
           /\ \A i \in 1..Len(call.arg) :
                 /\ call.arg[i].k \in DOMAIN heap[state.v]
                 /\ Shape(heap, heap[state.v][call.arg[i].k])
                       = ExpectedShape(NodeTable[call.arg[i].c.n])
           /\ OtherKeysKept(Keys(call.arg))
           /\ OtherObjectsKept
           /\ Normalised(middlewares) = pre.middlewares

\* C13 for the newActions whose nodes are each a leaf group or a pure branch
C13_WellFormedMerge == WellFormed(call.arg) => C13_MergeAddsKeys

\* the value the state holds under the key of entry e is the value of e: the
\* caller's new object itself, or the primitive given
HoldsValueOf(e) ==
    /\ e.k \in DOMAIN heap[state.v]
    /\ LET x == heap[state.v][e.k]
       IN IF e.c = NewObj
          THEN x.t = "obj" /\ x.v \notin DOMAIN pre.heap /\ heap[x.v] = EmptyObj
          ELSE x = e.c

\* C14: store(override), and initialState given to the constructor, set each
\* top-level key of the mapping in the state to the mapping's value itself;
\* every other top-level key of the state and every object the state reached
\* before are as they were, and the call returns the store's state object.
C14_ShallowOverlay ==
    call.op \in {"overlay", "new"}
        => /\ state = pre.state
           /\ \A i \in 1..Len(call.arg) : HoldsValueOf(call.arg[i])
           /\ OtherKeysKept(Keys(call.arg))
           /\ OtherObjectsKept
           /\ DOMAIN heap[state.v] = DOMAIN pre.heap[pre.state.v] \cup Keys(call.arg)
           /\ call.op = "overlay" => (ret = state /\ err = NoErr)

C14_Witness ==
    /\ call.op = "overlay" /\ call.arg = O_branchEmpty
    /\ pre.heap[pre.state.v][K_ts].t = "obj"
    /\ DOMAIN pre.heap[pre.heap[pre.state.v][K_ts].v] = {K_l, K_c}
    /\ heap[pre.heap[pre.state.v][K_ts].v] = pre.heap[pre.heap[pre.state.v][K_ts].v]
    /\ heap[state.v][K_ts] # pre.heap[pre.state.v][K_ts]
    /\ heap[heap[state.v][K_ts].v] = EmptyObj
    /\ ret = state

RECURSIVE Congruent(_, _, _)
\* value x in heap h has the shape of the action tree node with entries es:
\* any value where the node holds a transition function, else a mapping with
\* the node's keys, each of the shape of its nested node
Congruent(es, h, x) ==
    IF \E i \in 1..Len(es) : es[i].c.t = "fn" THEN TRUE
    ELSE /\ x.t = "obj"
         /\ DOMAIN h[x.v] = Keys(es)
         /\ \A i \in 1..Len(es) : Congruent(NodeTable[es[i].c.n], h, h[x.v][es[i].k])

\* C15: in every state the store reaches, the state has the shape of the
\* action tree: a mapping with the branch's keys where the tree has a branch,
\* a leaf value where it has a leaf group.
C15_StateCongruent == Congruent(actions, heap, state)

\* C16: a dispatch of a path that resolves in the action tree to a transition
\* function, with no middleware that returns without calling next, throws
\* nothing, whatever mappings the state lacks on the path, and leaves
\* action(previous value, payload) at the path's location.
C16_DispatchCreatesMappings ==
    (call.op = "dispatch" /\ Resolvable(call.path) /\ NoInterception(middlewares, call.path))
        => /\ err = NoErr
           /\ ValueAt(heap, state, Location(call.path))
                = Apply(OwnWalk(actions, Split(call.path)).f,
                        ValueAt(pre.heap, pre.state, Location(call.path)),
                        Num(call.payload)).val

\* C18: a dispatch that throws the path error leaves the store as it was:
\* the state object and every object it reaches, the action tree and the
\* middleware array.
C18_FailedDispatchKeepsStore ==
    (call.op = "dispatch" /\ err.kind = "path")
        => /\ err = PathErr(call.path)
           /\ state = pre.state
           /\ heap = pre.heap
           /\ actions = pre.actions
           /\ Normalised(middlewares) = pre.middlewares

C18_Witness ==
    /\ call.op = "dispatch" /\ call.path = K_t /\ err = PathErr(K_t)
    /\ Len(middlewares) = 1 /\ middlewares[1].fn = "through"
    /\ Positions(log, "enter", middlewares[1].id) # {}
    /\ Positions(log, "base", 0) # {}
    /\ K_k \in DOMAIN heap[state.v]
    /\ K_t \notin DOMAIN heap[state.v]

\* C19: no call replaces the store's state object: after every call, store()
\* returns the object it returned before the call, and so the object it
\* returned right after construction.
C19_StateObjectIsKept ==
    /\ state.t = "obj"
    /\ state = pre.state
    /\ call.op = "read" => ret = state

C19_Witness ==
    /\ call.op = "read" /\ ret = state /\ ret = pre.state
    /\ Keys(actions) = {K_ts, K_c, K_k}
    /\ Len(middlewares) = 1 /\ middlewares[1].fn = "replace"
    /\ ValueAt(heap, state, <<K_k, K_k>>) = Bool(TRUE)

\* ------------------------------- middleware that calls back into the store

\* the arguments of attach for middleware that calls next more than once or
\* calls the store while a dispatch runs
ChainArgs ==
    { <<DpFn, "through">>, <<DpFn, "short">>, <<DpFn, "twice">>,
      <<DpFn, "detachLast">>, <<DpFn, "attachMore">>,
      <<DpArr(<<Join(K_ts, K_l)>>), "redispatch">> }

ChainPaths == {P_list_add, P_all_toggle}

\* Store(actions): no initial middleware
InitChain == Init /\ initial = <<>>

NextChain ==
    \/ \E path \in ChainPaths, payload \in 1..MaxPayload : Dispatch(path, payload)
    \/ \E args \in ChainArgs : Attach(args[1], args[2])
    \/ \E id \in Attached : Detach(id)

SpecChain == InitChain /\ [][NextChain]_vars

\* how often a middleware function calls next
Calls(fn) ==
    CASE fn \in {"short", "replace"} -> 0
      [] fn = "twice" -> 2
      [] OTHER -> 1

RECURSIVE ApplyTimes(_, _, _, _)
\* action applied k times, each time to the value the time before produced
ApplyTimes(f, x, payload, k) ==
    IF k = 0 THEN x ELSE ApplyTimes(f, Apply(f, x, payload).val, payload, k - 1)

\* C17: when the only middleware calls next k times (0, 1 or 2) in a dispatch
\* of a path that resolves to a transition function, nothing is thrown, the
\* base transition runs k times, the value at the path's location is the
\* action applied k times in sequence to the value it had, and nothing else
\* in the state changes.
C17_NextCalledKTimes ==
    (/\ call.op = "dispatch"
     /\ Len(pre.middlewares) = 1
     /\ pre.middlewares[1].dp.t = "fn"
     /\ pre.middlewares[1].fn \in {"short", "through", "twice"}
     /\ Resolvable(call.path))
        => LET k == Calls(pre.middlewares[1].fn)
               loc == Location(call.path)
               parent == ValueAt(pre.heap, pre.state, Pop(loc))
               x == ApplyTimes(OwnWalk(actions, Split(call.path)).f,
                               ValueAt(pre.heap, pre.state, loc), Num(call.payload), k)
           IN /\ err = NoErr
              /\ Cardinality(Positions(log, "base", 0)) = k
              /\ ValueAt(heap, state, loc) = x
              /\ state = pre.state
              /\ heap = IF k = 0 THEN pre.heap ELSE Put(pre.heap, parent.v, loc[Len(loc)], x)

C17_Witness ==
    /\ call.op = "dispatch" /\ call.path = P_all_toggle /\ err = NoErr
    /\ Len(pre.middlewares) = 1 /\ pre.middlewares[1].fn = "twice"
    /\ ValueAt(pre.heap, pre.state, Location(P_all_toggle)) = Undef
    /\ ValueAt(heap, state, Location(P_all_toggle)) = Bool(FALSE)
    /\ Cardinality(Positions(log, "base", 0)) = 2

\* the middleware functions that call next once
OnceThrough == {"through", "detachLast", "attachMore", "redispatch"}

Reverse(q) == [i \in 1..Len(q) |-> q[Len(q) + 1 - i]]

\* the functions, in log order, of the events e of the dispatch of path
EventIds(lg, e, path) ==
    LET evs == SelectSeq(lg, LAMBDA ev : ev.e = e /\ ev.path = path)
    IN [i \in 1..Len(evs) |-> evs[i].id]

\* the middleware array as the middleware functions saw it before and after
\* their calls of detach and attach, in log order
Sightings(lg) == SelectSeq(lg, LAMBDA ev : ev.e \in {"before", "after"})

\* the sighting after a call shows the call's effect on the array seen before
Effect(fn, before, after) ==
    CASE fn = "detachLast" -> after = SubSeq(before, 1, Len(before) - 1)
      [] fn = "attachMore" ->
            \/ after = before
            \/ /\ Len(after) = Len(before) + 1
               /\ SubSeq(after, 1, Len(before)) = before
               /\ \A i \in 1..Len(before) : before[i] # after[Len(after)]
      [] OTHER -> FALSE

\* C20: when every wrapper that applies calls next once, a dispatch of a path
\* that resolves composes, enters and leaves exactly the wrappers that were
\* in the array and applied when it started, in the array's order, and runs
\* the base transition once, whatever detach, attach or dispatch the
\* middleware functions call meanwhile; each such detach or attach shows in
\* the array at once, and the array after the dispatch is the array the last
\* of them left.
C20_ChainFixedInFlight ==
    (/\ call.op = "dispatch"
     /\ Resolvable(call.path)
     /\ \A i \in 1..Len(pre.middlewares) :
           Applies(pre.middlewares[i], call.path) => pre.middlewares[i].fn \in OnceThrough)
        => LET chain == Chain(pre.middlewares, call.path)
               sights == Sightings(log)
           IN /\ err = NoErr
              /\ EventIds(log, "compose", call.path) = Reverse(Ids(chain))
              /\ EventIds(log, "enter", call.path) = Ids(chain)
              /\ EventIds(log, "exit", call.path) = Reverse(Ids(chain))
              /\ Len(EventIds(log, "base", call.path)) = 1
              /\ \A i \in 1..Len(chain) :
                    \E j \in 1..Len(log) : log[j] = ComposedWith(chain, i, call.path)
              /\ Len(sights) % 2 = 0
              /\ \A j \in 1..Len(sights) :
                    IF j % 2 = 1
                    THEN /\ sights[j].e = "before"
                         /\ sights[j].next = IF j = 1 THEN Ids(pre.middlewares) ELSE sights[j - 1].next
                    ELSE /\ sights[j].e = "after" /\ sights[j].id = sights[j - 1].id
                         /\ \E i \in 1..Len(pre.middlewares) :
                               /\ pre.middlewares[i].id = sights[j].id
                               /\ Effect(pre.middlewares[i].fn, sights[j - 1].next, sights[j].next)
              /\ Ids(middlewares) = IF sights = <<>> THEN Ids(pre.middlewares)
                                    ELSE sights[Len(sights)].next

\* a dispatch whose first wrapper detached the second, and whose second
\* wrapper, run all the same, dispatched another path, in which the first
\* wrapper ran again and detached itself
C20_Witness ==
    /\ call.op = "dispatch" /\ call.path = P_list_add /\ err = NoErr
    /\ Len(pre.middlewares) = 2
    /\ pre.middlewares[1].fn = "detachLast" /\ pre.middlewares[2].fn = "redispatch"
    /\ EventIds(log, "enter", P_list_add) = Ids(pre.middlewares)
    /\ EventIds(log, "exit", P_list_add) = Reverse(Ids(pre.middlewares))
    /\ middlewares = <<>>
    /\ Len(EventIds(log, "base", P_all_toggle)) = 1

=============================================================================
